---------------------------- MODULE Spec2Model ----------------------------
(***************************************************************************)
(* Model of src/main.py: the conversion of a Pydantic model class into the *)
(* response_format wrapper of OpenAI's structured outputs                  *)
(* (pydantic_to_so_openai_schema), and the script that converts Person,    *)
(* issues one chat-completion request with it and prints the answer.       *)
(*                                                                         *)
(* Python values are represented as follows:                               *)
(*   dict      a function whose domain is the set of keys present          *)
(*   list      a sequence                                                  *)
(*   str       a string                                                    *)
(*   bool      a BOOLEAN                                                   *)
(*   optional  a sequence of length 0 (no value yet) or 1 (the value)      *)
(***************************************************************************)
EXTENDS Naturals, Sequences, FiniteSets, TLC

\* Largest number of fields a model class of the harness declares.
MaxFields == 2

\* Largest number of conversion calls the harness makes in one behaviour.
MaxCalls == 3

---------------------------------------------------------------------------
(* Model classes (what a BaseModel subclass declares).                     *)

\* Field names the classes are built from; the first two are Person's.
FieldNames == {"full_name", "date_of_birth", "age"}

\* The Python annotation each field is declared with.
AnnotationOf(name) ==
    CASE name = "full_name"     -> "str"
      [] name = "date_of_birth" -> "str"
      [] name = "age"           -> "int"

\* Class names.
ClassNames == {"Person", "Invoice"}

\* model_config["extra"].
ExtraModes == {"ignore", "allow", "forbid"}

\* Keys of the generated schema a class's json_schema_extra hook may remove.
HookKeys == {"title", "properties", "required"}

\* Sequences over S of length at most n without repetition.
RECURSIVE DistinctSeqs(_, _)
DistinctSeqs(S, n) ==
    IF n = 0 THEN {<<>>}
    ELSE LET shorter == DistinctSeqs(S, n - 1)
         IN  shorter \cup
             {Append(s, x) : <<s, x>> \in
                 {p \in shorter \X S :
                     /\ Len(p[1]) = n - 1
                     /\ \A i \in 1..Len(p[1]) : p[1][i] # p[2]}}

\* A field declaration: name, annotation, and whether it has no default.
FieldDecl(name, required) ==
    [name |-> name, annotation |-> AnnotationOf(name), required |-> required]

\* Every assignment of "has no default" to the names of a sequence of names.
FieldSeqs(names) ==
    {[i \in 1..Len(names) |-> FieldDecl(names[i], req[i])] :
        req \in [1..Len(names) -> BOOLEAN]}

\* Class docstrings: none, or one like Person's.
Docstrings == {"", "A class used to represent a Person."}

\* The model classes of the harness.
Models ==
    {[name |-> n, doc |-> d, fields |-> fs, extra |-> e,
      json_schema_extra |-> h] :
        n \in ClassNames,
        d \in Docstrings,
        fs \in UNION {FieldSeqs(names) : names \in DistinctSeqs(FieldNames, MaxFields)},
        e \in ExtraModes,
        h \in SUBSET HookKeys}

\* class Person(BaseModel): full_name: str; date_of_birth: str
Person ==
    [name |-> "Person",
     doc |-> "A class used to represent a Person.",
     fields |-> <<FieldDecl("full_name", TRUE), FieldDecl("date_of_birth", TRUE)>>,
     extra |-> "ignore",
     json_schema_extra |-> {}]

\* A class that declares no field: class Empty(BaseModel): pass
Empty ==
    [name |-> "Empty", doc |-> "", fields |-> <<>>, extra |-> "ignore",
     json_schema_extra |-> {}]

---------------------------------------------------------------------------
(* dict helpers.                                                           *)

\* The empty dict.
EmptyDict == <<>>

\* d restricted to the keys not in ks.
Without(d, ks) == [k \in DOMAIN d \ ks |-> d[k]]

\* d.get(key, default)
Get(d, key, default) == IF key \in DOMAIN d THEN d[key] ELSE default

---------------------------------------------------------------------------
(* pydantic: BaseModel.model_json_schema().                                *)

\* The JSON Schema type pydantic emits for a Python annotation.
JsonType(annotation) ==
    CASE annotation = "str"   -> "string"
      [] annotation = "int"   -> "integer"
      [] annotation = "float" -> "number"
      [] annotation = "bool"  -> "boolean"

\* The title pydantic derives from a field name: name.replace("_", " ").title()
FieldTitle(name) ==
    CASE name = "full_name"     -> "Full Name"
      [] name = "date_of_birth" -> "Date Of Birth"
      [] name = "age"           -> "Age"

\* The schema of one field: its title and type, and the default (None,
\* rendered null) of a field that has one.
FieldSchema(f) ==
    IF f.required
    THEN [title |-> FieldTitle(f.name), type |-> JsonType(f.annotation)]
    ELSE [default |-> "null", title |-> FieldTitle(f.name),
          type |-> JsonType(f.annotation)]

\* The names of the fields of fs, in declaration order.
FieldNamesOf(fs) == [i \in 1..Len(fs) |-> fs[i].name]

\* The names of the fields without default, in declaration order.
RequiredOf(fs) == FieldNamesOf(SelectSeq(fs, LAMBDA f : f.required))

\* The properties dict: one entry per field.
PropertiesOf(fs) ==
    [n \in {fs[i].name : i \in 1..Len(fs)} |->
        FieldSchema(CHOOSE f \in {fs[i] : i \in 1..Len(fs)} : f.name = n)]

\* model_json_schema(): title and properties always, description when the
\* class has a docstring, required only when some field has no default,
\* additionalProperties only when extra is allow or forbid; then the
\* class's json_schema_extra hook removes its keys.
model_json_schema(m) ==
    LET base == [type |-> "object", title |-> m.name,
                 properties |-> PropertiesOf(m.fields)]
        doc  == IF m.doc = "" THEN EmptyDict ELSE [description |-> m.doc]
        req  == IF RequiredOf(m.fields) = <<>> THEN EmptyDict
                ELSE [required |-> RequiredOf(m.fields)]
        add  == CASE m.extra = "allow"  -> [additionalProperties |-> TRUE]
                  [] m.extra = "forbid" -> [additionalProperties |-> FALSE]
                  [] OTHER              -> EmptyDict
    IN  Without(base @@ doc @@ req @@ add, m.json_schema_extra)

---------------------------------------------------------------------------
(* src/main.py: pydantic_to_so_openai_schema.                              *)

\* The fallback name of a schema without title.
FallbackName == "GeneratedSChema"

\* Faulty variant: the required list is read under a misspelt key.
OpenAISchemaOf_RequiredKeyTypo(pydantic_schema) ==
    [type |-> "object",
     properties |-> Get(pydantic_schema, "properties", EmptyDict),
     required |-> Get(pydantic_schema, "requires", <<>>),
     additionalProperties |-> FALSE]

\* Faulty variant: additionalProperties is taken from the introspected schema.
OpenAISchemaOf_KeepsAdditional(pydantic_schema) ==
    [type |-> "object",
     properties |-> Get(pydantic_schema, "properties", EmptyDict),
     required |-> Get(pydantic_schema, "required", <<>>),
     additionalProperties |-> Get(pydantic_schema, "additionalProperties", FALSE)]

\* Faulty variant: each property descriptor is cut down to its type.
OpenAISchemaOf_TypeOnly(pydantic_schema) ==
    LET properties == Get(pydantic_schema, "properties", EmptyDict)
    IN  [type |-> "object",
         properties |-> [k \in DOMAIN properties |-> [type |-> properties[k].type]],
         required |-> Get(pydantic_schema, "required", <<>>),
         additionalProperties |-> FALSE]

\* Faulty variant: a missing properties key defaults to the whole schema.
OpenAISchemaOf_DefaultsToSchema(pydantic_schema) ==
    [type |-> "object",
     properties |-> Get(pydantic_schema, "properties", pydantic_schema),
     required |-> Get(pydantic_schema, "required", <<>>),
     additionalProperties |-> FALSE]

\* openai_schema = {...}
OpenAISchemaOf(pydantic_schema) ==
    [type |-> "object",
     properties |-> Get(pydantic_schema, "properties", EmptyDict),
     required |-> Get(pydantic_schema, "required", <<>>),
     additionalProperties |-> FALSE]

\* Faulty variant: the name is read under the key "name", which no schema has.
JSONSchema_NameKey(pydantic_schema) ==
    [name |-> Get(pydantic_schema, "name", FallbackName),
     schema |-> OpenAISchemaOf(pydantic_schema),
     strict |-> TRUE]

\* JSONSchema(name=..., schema=openai_schema, strict=True)
JSONSchema(pydantic_schema) ==
    [name |-> Get(pydantic_schema, "title", FallbackName),
     schema |-> OpenAISchemaOf(pydantic_schema),
     strict |-> TRUE]

\* Faulty variant: the wrapper is tagged as the JSON-object response format.
ResponseFormatJSONSchema_JsonObject(openai_json_schema) ==
    [type |-> "json_object", json_schema |-> openai_json_schema]

\* ResponseFormatJSONSchema(type="json_schema", json_schema=openai_json_schema)
ResponseFormatJSONSchema(openai_json_schema) ==
    [type |-> "json_schema", json_schema |-> openai_json_schema]

pydantic_to_so_openai_schema(pydantic_model) ==
    ResponseFormatJSONSchema(JSONSchema(model_json_schema(pydantic_model)))

---------------------------------------------------------------------------
(* State.                                                                  *)

VARIABLES
    classes,        \* the model classes the program defines, by position
    calls,          \* the calls of pydantic_to_so_openai_schema so far
    pc,             \* script: the statement to execute next
    environ,        \* script: os.environ's OPENAI_API_KEY (optional)
    dotenv,         \* script: the OPENAI_API_KEY of the .env file (optional)
    person_schema,  \* script: the module variable person_schema (optional)
    client,         \* script: the module variable client (optional)
    requests,       \* script: the requests sent to the Completion Service
    response,       \* script: the module variable response (optional)
    exc,            \* script: the exception being raised (optional)
    stdout,         \* script: what has been printed
    exit_code,      \* script: the exit status of the process (optional)
    steps           \* script: the statements executed so far, in order

scriptVars == <<pc, environ, dotenv, person_schema, client, requests,
                response, exc, stdout, exit_code, steps>>

vars == <<classes, calls, scriptVars>>

\* The record of one call: the class passed, what introspection gave, and
\* the value returned.
CallRecord(pydantic_model) ==
    [arg |-> pydantic_model,
     pydantic_schema |-> model_json_schema(pydantic_model),
     ret |-> pydantic_to_so_openai_schema(pydantic_model)]

---------------------------------------------------------------------------
(* The conversion harness: a program defining two model classes that calls *)
(* pydantic_to_so_openai_schema on them in any order.                      *)

InitConvert ==
    /\ classes \in {<<m, n>> : m \in Models, n \in {Person, Empty}}
    /\ calls = <<>>
    /\ pc = "idle"
    /\ environ = <<>>
    /\ dotenv = <<>>
    /\ person_schema = <<>>
    /\ client = <<>>
    /\ requests = <<>>
    /\ response = <<>>
    /\ exc = <<>>
    /\ stdout = <<>>
    /\ exit_code = <<>>
    /\ steps = <<>>

\* Faulty variant: the required list is a module-level list every call extends.
Call_SharedRequired(i) ==
    /\ Len(calls) < MaxCalls
    /\ LET r    == CallRecord(classes[i])
           prev == IF calls = <<>> THEN <<>>
                   ELSE calls[Len(calls)].ret.json_schema.schema.required
       IN  calls' = Append(calls,
                      [r EXCEPT !.ret.json_schema.schema.required = prev \o @])
    /\ UNCHANGED <<classes, scriptVars>>

\* Faulty variant: the call makes every field of the class required, in place.
Call_NormalisesClass(i) ==
    /\ Len(calls) < MaxCalls
    /\ calls' = Append(calls, CallRecord(classes[i]))
    /\ classes' = [classes EXCEPT ![i].fields =
                      [k \in DOMAIN @ |-> [@[k] EXCEPT !.required = TRUE]]]
    /\ UNCHANGED scriptVars

\* One call of pydantic_to_so_openai_schema(classes[i]): it returns a value
\* and assigns nothing outside its own locals.
Call(i) ==
    /\ Len(calls) < MaxCalls
    /\ calls' = Append(calls, CallRecord(classes[i]))
    /\ UNCHANGED <<classes, scriptVars>>

NextConvert == \E i \in DOMAIN classes : Call(i)

SpecConvert == InitConvert /\ [][NextConvert]_vars

---------------------------------------------------------------------------
(* The script (module level of src/main.py).                               *)

\* API keys: one the service accepts, one it rejects.
ValidKey == "sk-valid"
RevokedKey == "sk-revoked"
OptionalKeys == {<<>>, <<ValidKey>>, <<RevokedKey>>}

\* messages=[...]
Messages ==
    <<[role |-> "user",
       content |-> <<[type |-> "text",
                      text |-> "What is Barack Obama basic information?"]>>],
      [role |-> "assistant",
       content |-> <<[type |-> "text",
                      text |-> "{full_name: Barack Hussein Obama II, date_of_birth: 1961-08-04}"]>>]>>

\* The keyword arguments of client.chat.completions.create.
CreateArguments(response_format) ==
    [model |-> "gpt-4o",
     messages |-> Messages,
     response_format |-> response_format,
     temperature |-> 1,
     max_completion_tokens |-> 2048,
     top_p |-> 1,
     frequency_penalty |-> 0,
     presence_penalty |-> 0]

\* The completions the service may answer with.
Completions ==
    {[content |-> c, finish_reason |-> f] :
        c \in {"{full_name: Barack Hussein Obama II, date_of_birth: 1961-08-04}",
               "{full_name: Barack Obama, date_of_birth: 1961-08-04}",
               "{full_name: Barack Hussein Obama II, date_of_birth: 19",
               ""},
        f \in {"stop", "length", "content_filter"}}

\* The exceptions the call may raise for a request made with api_key.
ServiceErrors(api_key) ==
    IF api_key = ValidKey
    THEN {"APIConnectionError", "APITimeoutError", "BadRequestError",
          "RateLimitError"}
    ELSE {"APIConnectionError", "APITimeoutError", "AuthenticationError"}

Init ==
    /\ classes = <<Person>>
    /\ calls = <<>>
    /\ pc = "load_dotenv"
    /\ environ \in OptionalKeys
    /\ dotenv \in OptionalKeys
    /\ person_schema = <<>>
    /\ client = <<>>
    /\ requests = <<>>
    /\ response = <<>>
    /\ exc = <<>>
    /\ stdout = <<>>
    /\ exit_code = <<>>
    /\ steps = <<>>

\* load_dotenv(override=True): a key of the .env file replaces the one of
\* the environment.
LoadDotenv ==
    /\ pc = "load_dotenv"
    /\ environ' = IF dotenv # <<>> THEN dotenv ELSE environ
    /\ pc' = "convert"
    /\ steps' = Append(steps, "load_dotenv")
    /\ UNCHANGED <<classes, calls, dotenv, person_schema, client, requests,
                   response, exc, stdout, exit_code>>

\* person_schema = pydantic_to_so_openai_schema(Person)
Convert ==
    /\ pc = "convert"
    /\ calls' = Append(calls, CallRecord(classes[1]))
    /\ person_schema' = <<calls'[Len(calls')].ret>>
    /\ pc' = "client"
    /\ steps' = Append(steps, "convert")
    /\ UNCHANGED <<classes, environ, dotenv, client, requests, response, exc,
                   stdout, exit_code>>

\* client = OpenAI(): raises OpenAIError when no API key is set.
NewClient ==
    /\ pc = "client"
    /\ steps' = Append(steps, "client")
    /\ IF environ = <<>>
       THEN /\ exc' = <<"OpenAIError">>
            /\ pc' = "raise"
            /\ UNCHANGED client
       ELSE /\ client' = <<[api_key |-> environ[1]]>>
            /\ pc' = "create"
            /\ UNCHANGED exc
    /\ UNCHANGED <<classes, calls, environ, dotenv, person_schema, requests,
                   response, stdout, exit_code>>

\* Faulty variant: the inner json_schema dict is passed as response_format.
Create_Unwrapped ==
    /\ pc = "create"
    /\ requests' = Append(requests,
                     [api_key |-> client[1].api_key,
                      body |-> CreateArguments(person_schema[1].json_schema)])
    /\ pc' = "await"
    /\ steps' = Append(steps, "request")
    /\ UNCHANGED <<classes, calls, environ, dotenv, person_schema, client,
                   response, exc, stdout, exit_code>>

\* response = client.chat.completions.create(...): the request goes out and
\* the call blocks.
Create ==
    /\ pc = "create"
    /\ requests' = Append(requests,
                     [api_key |-> client[1].api_key,
                      body |-> CreateArguments(person_schema[1])])
    /\ pc' = "await"
    /\ steps' = Append(steps, "request")
    /\ UNCHANGED <<classes, calls, environ, dotenv, person_schema, client,
                   response, exc, stdout, exit_code>>

\* The service answers: create returns the completion, assigned to response.
ServiceAnswers(completion) ==
    /\ pc = "await"
    /\ requests[Len(requests)].api_key = ValidKey
    /\ response' = <<completion>>
    /\ pc' = "print"
    /\ UNCHANGED <<classes, calls, environ, dotenv, person_schema, client,
                   requests, exc, stdout, exit_code, steps>>

\* The call fails: create raises.
ServiceFails(error) ==
    /\ pc = "await"
    /\ error \in ServiceErrors(requests[Len(requests)].api_key)
    /\ exc' = <<error>>
    /\ pc' = "raise"
    /\ UNCHANGED <<classes, calls, environ, dotenv, person_schema, client,
                   requests, response, stdout, exit_code, steps>>

\* print(response), the last statement: the process exits with status 0.
PrintResponse ==
    /\ pc = "print"
    /\ stdout' = Append(stdout, response[1])
    /\ pc' = "exit"
    /\ exit_code' = <<0>>
    /\ steps' = Append(steps, "print")
    /\ UNCHANGED <<classes, calls, environ, dotenv, person_schema, client,
                   requests, response, exc>>

\* Faulty variant: a failed call is caught and made once more.
Uncaught_Retry ==
    /\ pc = "raise"
    /\ IF requests # <<>> /\ Len(requests) < 2
       THEN /\ pc' = "create"
            /\ exc' = <<>>
            /\ UNCHANGED exit_code
       ELSE /\ pc' = "exit"
            /\ exit_code' = <<1>>
            /\ UNCHANGED exc
    /\ UNCHANGED <<classes, calls, environ, dotenv, person_schema, client,
                   requests, response, stdout, steps>>

\* No statement is inside a try: the exception reaches the top level and
\* the process exits with status 1.
Uncaught ==
    /\ pc = "raise"
    /\ pc' = "exit"
    /\ exit_code' = <<1>>
    /\ UNCHANGED <<classes, calls, environ, dotenv, person_schema, client,
                   requests, response, exc, stdout, steps>>

\* The statements of the script.
ScriptStep ==
    \/ LoadDotenv
    \/ Convert
    \/ NewClient
    \/ Create
    \/ PrintResponse
    \/ Uncaught

\* The Completion Service.
ServiceStep ==
    \/ \E completion \in Completions : ServiceAnswers(completion)
    \/ \E error \in ServiceErrors(ValidKey) \cup ServiceErrors(RevokedKey) :
           ServiceFails(error)

Next == ScriptStep \/ ServiceStep

Spec == Init /\ [][Next]_vars

\* The interpreter executes the next statement whenever there is one; the
\* service is not required to answer.
FairSpec == Spec /\ WF_vars(ScriptStep)

---------------------------------------------------------------------------
(* Properties of pydantic_to_so_openai_schema (checked under SpecConvert). *)

\* The calls made so far, as a set.
CallSet == {calls[i] : i \in DOMAIN calls}

\* A class that is a plain declaration of fields: its schema is the one
\* generated from the declaration, no hook edits it.
PlainDeclaration(m) == m.json_schema_extra = {}

\* Every field of fs has no default.
AllRequired(fs) == \A i \in 1..Len(fs) : fs[i].required

\* The elements of a sequence.
Range(s) == {s[i] : i \in DOMAIN s}

\* C1: for a model whose fields f1..fn all have no defaults, the returned
\* schema's properties has exactly the keys f1..fn and its required is
\* f1..fn in declaration order, so required is the key set of properties.
C1_PropertiesAndRequired ==
    \A c \in CallSet :
        (PlainDeclaration(c.arg) /\ AllRequired(c.arg.fields)) =>
            LET schema == c.ret.json_schema.schema
            IN  /\ DOMAIN schema.properties = Range(FieldNamesOf(c.arg.fields))
                /\ schema.required = FieldNamesOf(c.arg.fields)
                /\ Range(schema.required) = DOMAIN schema.properties

\* C1 witness: a call on a model with two fields, none with a default.
C1_Witness ==
    \E c \in CallSet :
        /\ PlainDeclaration(c.arg)
        /\ AllRequired(c.arg.fields)
        /\ Len(c.arg.fields) = 2
        /\ c.arg # Person

\* C2: for every input the returned schema has type "object" and
\* additionalProperties false, whatever the introspected schema said.
C2_ObjectNoAdditional ==
    \A c \in CallSet :
        /\ c.ret.json_schema.schema.type = "object"
        /\ c.ret.json_schema.schema.additionalProperties = FALSE

\* C2 witness: a call on a model whose introspected schema allows extra
\* properties, and a call on a model with zero fields.
C2_Witness ==
    /\ \E c \in CallSet :
           /\ "additionalProperties" \in DOMAIN c.pydantic_schema
           /\ c.pydantic_schema.additionalProperties = TRUE
    /\ \E c \in CallSet : c.arg.fields = <<>>

\* The wrapper the end-to-end scenario states for Person: each property
\* descriptor is exactly {type: "string"}.
PersonWrapperTypeOnly ==
    [type |-> "json_schema",
     json_schema |->
        [name |-> "Person",
         strict |-> TRUE,
         schema |->
            [type |-> "object",
             properties |-> [full_name |-> [type |-> "string"],
                             date_of_birth |-> [type |-> "string"]],
             required |-> <<"full_name", "date_of_birth">>,
             additionalProperties |-> FALSE]]]

\* The wrapper with the descriptors introspection generates: title and type.
PersonWrapperWithTitles ==
    [type |-> "json_schema",
     json_schema |->
        [name |-> "Person",
         strict |-> TRUE,
         schema |->
            [type |-> "object",
             properties |->
                [full_name |-> [title |-> "Full Name", type |-> "string"],
                 date_of_birth |-> [title |-> "Date Of Birth", type |-> "string"]],
             required |-> <<"full_name", "date_of_birth">>,
             additionalProperties |-> FALSE]]]

\* C3 as stated: converting Person returns the wrapper whose property
\* descriptors are exactly {type: "string"}.
C3_PersonTypeOnly ==
    \A c \in CallSet : c.arg = Person => c.ret = PersonWrapperTypeOnly

\* C3 amended: converting Person returns the wrapper whose property
\* descriptors are the introspected ones, {title, type: "string"}.
C3_PersonWithTitles ==
    \A c \in CallSet : c.arg = Person => c.ret = PersonWrapperWithTitles

\* C3 witness: Person has been converted.
C3_Witness == \E c \in CallSet : c.arg = Person

\* C4: the wrapper's name is the introspected schema's title when it has
\* one and the fallback string otherwise; no other name is produced.
C4_NameIsTitleOrFallback ==
    \A c \in CallSet :
        /\ "title" \in DOMAIN c.pydantic_schema =>
               c.ret.json_schema.name = c.pydantic_schema.title
        /\ "title" \notin DOMAIN c.pydantic_schema =>
               c.ret.json_schema.name = "GeneratedSChema"
        /\ c.ret.json_schema.name \in {c.arg.name, "GeneratedSChema"}

\* C4 witness: one call on a schema with a title, one on a schema without.
C4_Witness ==
    /\ \E c \in CallSet : "title" \in DOMAIN c.pydantic_schema
    /\ \E c \in CallSet : "title" \notin DOMAIN c.pydantic_schema

\* C5: for every input the returned value has type "json_schema" and
\* json_schema.strict true.
C5_JsonSchemaStrict ==
    \A c \in CallSet :
        /\ c.ret.type = "json_schema"
        /\ c.ret.json_schema.strict = TRUE

\* C5 witness: calls on two different models have returned.
C5_Witness ==
    \E c, d \in CallSet : c.arg # d.arg /\ c.arg.fields # d.arg.fields

\* C6: when the introspected schema lacks properties and/or required, the
\* call returns a wrapper with properties {} and/or required [], the other
\* keys being as for any input.
C6_MissingKeysDefaultToEmpty ==
    \A c \in CallSet :
        LET ps     == c.pydantic_schema
            schema == c.ret.json_schema.schema
        IN  /\ "properties" \notin DOMAIN ps => schema.properties = EmptyDict
            /\ "required" \notin DOMAIN ps => schema.required = <<>>
            /\ ("properties" \notin DOMAIN ps \/ "required" \notin DOMAIN ps) =>
                   /\ DOMAIN c.ret = {"type", "json_schema"}
                   /\ DOMAIN c.ret.json_schema = {"name", "schema", "strict"}
                   /\ DOMAIN schema =
                          {"type", "properties", "required", "additionalProperties"}
                   /\ c.ret.type = "json_schema"
                   /\ c.ret.json_schema.strict = TRUE
                   /\ c.ret.json_schema.name = Get(ps, "title", "GeneratedSChema")
                   /\ schema.type = "object"
                   /\ schema.additionalProperties = FALSE
                   /\ "properties" \in DOMAIN ps => schema.properties = ps.properties
                   /\ "required" \in DOMAIN ps => schema.required = ps.required

\* C6 witness: a call on a plain model with zero fields (no required key)
\* and a call on a model with fields whose schema lacks both keys.
C6_Witness ==
    /\ \E c \in CallSet :
           /\ PlainDeclaration(c.arg)
           /\ c.arg.fields = <<>>
           /\ "required" \notin DOMAIN c.pydantic_schema
           /\ c.ret.json_schema.schema.properties = EmptyDict
           /\ c.ret.json_schema.schema.required = <<>>
    /\ \E c \in CallSet :
           /\ c.arg.fields # <<>>
           /\ "properties" \notin DOMAIN c.pydantic_schema
           /\ "required" \notin DOMAIN c.pydantic_schema

C8_NoSideEffects ==
    [][/\ classes' = classes
       /\ scriptVars' = scriptVars
       /\ \E c \in {CallRecord(classes[i]) : i \in DOMAIN classes} :
              calls' = Append(calls, c)]_vars

\* C8 witness: both classes have been converted.
C8_Witness ==
    /\ Len(calls) >= 2
    /\ calls[1].arg # calls[2].arg

---------------------------------------------------------------------------
(* Properties of the script (checked under Spec and FairSpec).             *)

\* The call of client.chat.completions.create has failed.
CallFailed == requests # <<>> /\ exc # <<>>

\* The call of client.chat.completions.create has returned.
CallSucceeded == response # <<>>

\* The process has terminated.
Terminated == pc = "exit"

\* s is a prefix of t.
IsPrefix(s, t) == Len(s) <= Len(t) /\ s = SubSeq(t, 1, Len(s))

\* C9: if the call fails, the program terminates with the failure, never
\* retries and never prints; if it succeeds, the program prints the
\* completion exactly once and terminates; once the service has answered
\* or failed, the program eventually terminates.
C9_FailTerminatesSuccessPrintsOnce ==
    /\ [](CallFailed => stdout = <<>> /\ ~CallSucceeded)
    /\ [][CallFailed => CallFailed' /\ requests' = requests]_vars
    /\ []((Terminated /\ CallFailed) => exit_code = <<1>>)
    /\ [](CallSucceeded => ~CallFailed /\ Len(stdout) <= 1)
    /\ []((Terminated /\ CallSucceeded) =>
              stdout = <<response[1]>> /\ exit_code = <<0>>)
    /\ (CallFailed \/ CallSucceeded) ~> Terminated

\* C9 witness: the process has terminated after an authentication failure
\* of its one request.
C9_Witness ==
    /\ Terminated
    /\ exc = <<"AuthenticationError">>
    /\ Len(requests) = 1
    /\ stdout = <<>>

\* C10: the statements run in the order load_dotenv, conversion, client
\* construction, request, print; at most one request is issued, and its
\* response_format is the value the conversion of Person returned.
C10_OrderAndSingleRequest ==
    /\ IsPrefix(steps, <<"load_dotenv", "convert", "client", "request", "print">>)
    /\ Len(requests) <= 1
    /\ Len(calls) <= 1
    /\ \A i \in DOMAIN requests :
           /\ calls # <<>>
           /\ calls[1].arg = Person
           /\ requests[i].body.response_format = calls[1].ret
           /\ requests[i].body = CreateArguments(pydantic_to_so_openai_schema(Person))
           /\ person_schema = <<calls[1].ret>>

\* C10 witness: a run that executed all five statements.
C10_Witness ==
    /\ steps = <<"load_dotenv", "convert", "client", "request", "print">>
    /\ Len(requests) = 1
    /\ stdout # <<>>

===========================================================================
